---- MODULE Spec2Model ----
(***************************************************************************)
(* The DynamoDB provisioning script (migrations.py): one or two instances  *)
(* of main() -> DynamoDBMigrator.run_migrations reconcile one remote       *)
(* store against one configuration file.  Every boto3 call is one step, so *)
(* the calls of two instances interleave freely.                           *)
(***************************************************************************)
EXTENDS Integers, Sequences, FiniteSets, TLC

\* ---------------------------------------------------------------- bounds
MaxLen == 2       \* longest "tables" list of a configuration
MaxRuns == 2      \* invocations of the script per instance
MaxDays == 2      \* midnights that pass while the service is up
MaxFaults == 2    \* store calls the environment may fail in one behaviour

\* ------------------------------------------------------------ the inputs
Procs == {"m1", "m2"}
Names == {"users", "events"}
NoName == "<no name>"

\* One element of "tables": its "name" (or none), and whether its body holds
\* all of "key_schema", "attributes" and "billing_mode", which create_table
\* reads inside one try block.  An element without a name is read no further
\* than its name.
\* "declared": every attribute its key_schema names is in its "attributes".
Descriptors ==
  [name : Names, complete : BOOLEAN, declared : {TRUE}]
    \cup {[name |-> NoName, complete |-> TRUE, declared |-> TRUE]}

\* Elements whose key_schema names an attribute that "attributes" lacks.
UndeclaredKey == [name : Names, complete : {TRUE}, declared : {FALSE}]

RECURSIVE SeqsUpTo(_, _)
SeqsUpTo(S, n) ==
  IF n = 0 THEN {<<>>}
  ELSE LET shorter == SeqsUpTo(S, n - 1)
       IN  shorter \cup {Append(s, x) : s \in {t \in shorter : Len(t) = n - 1}, x \in S}

\* The configuration file: readable JSON with a "tables" list, a missing file,
\* or a file that is not JSON.
Configs ==
  [source : {"ok"}, tables : SeqsUpTo(Descriptors, MaxLen)]
    \cup [source : {"FileNotFoundError", "JSONDecodeError"}, tables : {<<>>}]

\* Readable configurations with an element of UndeclaredKey among their tables.
UndeclaredConfigs ==
  {c \in [source : {"ok"}, tables : SeqsUpTo(Descriptors \cup UndeclaredKey, MaxLen)] :
     \E i \in 1..Len(c.tables) : ~c.tables[i].declared}

\* ------------------------------------------------------ the store's answers
StoreStatus == {"absent", "CREATING", "ACTIVE"}

\* botocore: the service's error codes arrive as ClientError; a connection
\* failure (EndpointConnectionError) and the waiter's WaiterError do not.
IsClientError(r) ==
  r \in {"ResourceNotFoundException", "ResourceInUseException", "AccessDeniedException",
        "ValidationException"}

VARIABLES
  config,         \* the configuration file every instance reads
  store,          \* the remote store: table name -> status
  initStore,      \* the store as the behaviour found it
  accepted,       \* table name -> CreateTable requests the store accepted
  faults,         \* store calls the environment has failed so far
  pc,             \* instance -> position
  idx,            \* instance -> index of table_config in the loop
  success_count,  \* instance -> run_migrations' success_count
  result,         \* instance -> run_migrations' return value ("none" before)
  exit_status,    \* instance -> status passed to sys.exit (-1 before)
  report,         \* instance -> per create_table call: the answers it got, its return
  runs,           \* instance -> invocations started
  prevResult,     \* instance -> return value of the previous invocation
  storeAtStart,   \* instance -> tables present when this invocation started
  listed,         \* whether --list was invoked, and what the last one got back
  firstRun,       \* the run that was replayed in another order, for comparison
  today,          \* main.py: date.today()
  records,        \* main.py: the birthdays table, username -> item
  writtenOn,      \* main.py: username -> the day its item was put
  response,       \* main.py: the last HTTP response, with the request it answers
  elapsed,        \* main.py: midnights passed since the service started
  arg,            \* main.py: birth_date_str of a direct call of the calculation
  days            \* main.py: what that call returned or raised

\* The state of main.py, which the provisioning script never touches.
helloVars == <<today, records, writtenOn, response, elapsed, arg, days>>

\* The state of migrations.py, which the service never touches.
migratorVars == <<config, store, initStore, accepted, faults, pc, idx, success_count,
                  result, exit_status, report, runs, prevResult, storeAtStart, listed,
                  firstRun>>

vars == <<config, store, initStore, accepted, faults, pc, idx, success_count,
          result, exit_status, report, runs, prevResult, storeAtStart, listed,
          firstRun, helloVars>>

Present(s) == {n \in Names : s[n] # "absent"}

\* A lone instance meets a store that may fail up to MaxFaults of its calls;
\* two concurrent instances meet a store that fails none.
Budget == IF pc["m2"] = "off" THEN MaxFaults ELSE 0

\* ------------------------------------------------------ the store (DynamoDB)
\* DescribeTable (Table.load): the truthful answer, or an injected failure.
DescribeAnswers(n) ==
  {IF store[n] = "absent" THEN "ResourceNotFoundException" ELSE "ok"}
    \cup (IF faults < Budget THEN {"AccessDeniedException", "EndpointConnectionError"} ELSE {})

\* CreateTable: accepted for an absent name, ResourceInUseException otherwise.
CreateAnswers(n) ==
  {IF store[n] = "absent" THEN "ok" ELSE "ResourceInUseException"}
    \cup (IF faults < Budget THEN {"AccessDeniedException", "EndpointConnectionError"} ELSE {})

\* CreateTable for a descriptor: the store validates the request first and
\* refuses a key_schema over undeclared attributes.
CreateAnswersFor(d) ==
  IF d.declared THEN CreateAnswers(d.name)
  ELSE {"ValidationException"}
         \cup (IF faults < Budget THEN {"AccessDeniedException", "EndpointConnectionError"} ELSE {})

\* The table_exists waiter: returns once the table is ACTIVE, WaiterError when
\* it gives up (its attempts run out, or a poll is refused).
WaitAnswers(n) ==
  (IF store[n] = "ACTIVE" THEN {"ok"} ELSE {})
    \cup (IF faults < Budget THEN {"WaiterError"} ELSE {})

IsFault(r) == r \in {"AccessDeniedException", "EndpointConnectionError", "WaiterError"}

Spend(r) == faults' = IF IsFault(r) THEN faults + 1 ELSE faults

\* The store finishes a creation on its own.
Activate(n) ==
  /\ store[n] = "CREATING"
  /\ store' = [store EXCEPT ![n] = "ACTIVE"]
  /\ UNCHANGED <<config, initStore, accepted, faults, pc, idx, success_count, result,
                 exit_status, report, runs, prevResult, storeAtStart, listed, firstRun, helloVars>>

\* -------------------------------------------------------- pure decisions
\* Mutant of TableExistsReturn: the "return True" after table.load() is gone,
\* so a loaded table yields None, which create_table reads as absent.
TableExistsReturn_NoReturnTrue(r) ==
  IF r = "ok" THEN "False"
  ELSE IF IsClientError(r) THEN "False"
  ELSE "raise"

\* table_exists: True, False, or the exception it lets through.
TableExistsReturn(r) ==
  IF r = "ok" THEN "True"
  ELSE IF IsClientError(r) THEN "False"
  ELSE "raise"

\* Mutant of AfterCreate: the waiter is started whatever create_table
\* answered.
AfterCreate_WaitAnyway(r) == "wait"

\* Mutant of AfterCreate: the ResourceInUseException branch is gone, every
\* ClientError is a failure.
AfterCreate_NoRaceBranch(r) ==
  IF r = "ok" THEN "wait" ELSE "False"

\* create_table after client.create_table answered: go on to the waiter, or
\* return from an except clause.
AfterCreate(r) ==
  IF r = "ok" THEN "wait"
  ELSE IF IsClientError(r)
       THEN (IF r = "ResourceInUseException" THEN "True" ELSE "False")
  ELSE "False"

\* Mutant of AfterWait: the waiter's failure is swallowed and create_table
\* returns True all the same.
AfterWait_IgnoreWaiterError(r) == "True"

\* Mutant of AfterWait: the "return True" after the waiter is gone, so
\* create_table yields None, which the loop does not count.
AfterWait_NoReturnTrue(r) == "False"

\* create_table after the waiter answered.
AfterWait(r) == IF r = "ok" THEN "True" ELSE "False"

\* Mutant of MigrationsReturn: any success makes the run a success.
MigrationsReturn_AnySuccess(count, n) == IF count > 0 THEN "True" ELSE "False"

\* run_migrations' return value after the loop.
MigrationsReturn(count, n) == IF count = n THEN "True" ELSE "False"

\* main: sys.exit(0 if success else 1)
ExitStatus(success) == IF success = "True" THEN 0 ELSE 1

\* ------------------------------------------------------------- the script
NewEntry == [exists |-> "none", create |-> "none", wait |-> "none", ret |-> "pending"]

Tables == config.tables
Desc(p) == Tables[idx[p]]

\* run_migrations returns v (and main exits with it).
Finish(p, v) ==
  /\ result' = [result EXCEPT ![p] = v]
  /\ exit_status' = [exit_status EXCEPT ![p] = ExitStatus(v)]
  /\ pc' = [pc EXCEPT ![p] = "done"]

\* Mutant of LoadRaises: load_table_config swallows its errors and returns
\* an empty list.
LoadRaises_Never(c) == FALSE

\* load_table_config re-raises FileNotFoundError and JSONDecodeError.
LoadRaises(c) == c.source \in {"FileNotFoundError", "JSONDecodeError"}

\* main starts run_migrations, which loads the configuration.
Start(p) ==
  /\ pc[p] \in {"idle", "done", "killed"}
  /\ runs[p] < MaxRuns
  /\ runs' = [runs EXCEPT ![p] = @ + 1]
  /\ prevResult' = [prevResult EXCEPT ![p] = result[p]]
  /\ storeAtStart' = [storeAtStart EXCEPT ![p] = Present(store)]
  /\ report' = [report EXCEPT ![p] = <<>>]
  /\ success_count' = [success_count EXCEPT ![p] = 0]
  /\ IF LoadRaises(config)
       THEN /\ Finish(p, "False")
            /\ idx' = [idx EXCEPT ![p] = 0]
       ELSE IF Tables = <<>>
         THEN /\ Finish(p, "True")
              /\ idx' = [idx EXCEPT ![p] = 0]
         ELSE /\ pc' = [pc EXCEPT ![p] = "exists"]
              /\ idx' = [idx EXCEPT ![p] = 1]
              /\ result' = [result EXCEPT ![p] = "none"]
              /\ exit_status' = [exit_status EXCEPT ![p] = -1]
  /\ UNCHANGED <<config, store, initStore, accepted, faults, listed, firstRun, helloVars>>

\* The report after create_table's i-th call got as far as entry e.
SetEntry(rep, i, e) == IF i > Len(rep) THEN Append(rep, e) ELSE [rep EXCEPT ![i] = e]

\* Mutant of Returned: the loop stops at the first create_table that returns
\* False.
Returned_StopOnFailure(p, entry, v) ==
  LET count == IF v = "True" THEN success_count[p] + 1 ELSE success_count[p]
  IN  /\ report' = [report EXCEPT ![p] = SetEntry(@, idx[p], [entry EXCEPT !.ret = v])]
      /\ success_count' = [success_count EXCEPT ![p] = count]
      /\ IF idx[p] = Len(Tables) \/ v = "False"
           THEN /\ Finish(p, MigrationsReturn(count, Len(Tables)))
                /\ idx' = idx
           ELSE /\ pc' = [pc EXCEPT ![p] = "exists"]
                /\ idx' = [idx EXCEPT ![p] = @ + 1]
                /\ UNCHANGED <<result, exit_status>>

\* create_table returned v for the current table_config: the loop counts it
\* and goes on, or run_migrations returns after the last one.
Returned(p, entry, v) ==
  LET count == IF v = "True" THEN success_count[p] + 1 ELSE success_count[p]
  IN  /\ report' = [report EXCEPT ![p] = SetEntry(@, idx[p], [entry EXCEPT !.ret = v])]
      /\ success_count' = [success_count EXCEPT ![p] = count]
      /\ IF idx[p] = Len(Tables)
           THEN /\ Finish(p, MigrationsReturn(count, Len(Tables)))
                /\ idx' = idx
           ELSE /\ pc' = [pc EXCEPT ![p] = "exists"]
                /\ idx' = [idx EXCEPT ![p] = @ + 1]
                /\ UNCHANGED <<result, exit_status>>

\* An exception left create_table: run_migrations' except clause returns False.
Raised(p, entry) ==
  /\ report' = [report EXCEPT ![p] = SetEntry(@, idx[p], [entry EXCEPT !.ret = "raised"])]
  /\ Finish(p, "False")
  /\ UNCHANGED <<idx, success_count>>

\* create_table goes on to its next store call.
GoOn(p, entry, next) ==
  /\ report' = [report EXCEPT ![p] = SetEntry(@, idx[p], entry)]
  /\ pc' = [pc EXCEPT ![p] = next]
  /\ UNCHANGED <<idx, success_count, result, exit_status>>

\* Mutant of ExistsCheck: the early "return True" of create_table is gone, a
\* table that exists is created all the same.
ExistsCheck_NoShortCircuit(p) ==
  /\ pc[p] = "exists"
  /\ IF Desc(p).name = NoName
       THEN /\ Raised(p, [NewEntry EXCEPT !.exists = "KeyError"])
            /\ UNCHANGED faults
       ELSE \E r \in DescribeAnswers(Desc(p).name) :
              LET entry == [NewEntry EXCEPT !.exists = r]
                  ret == TableExistsReturn(r)
              IN  /\ Spend(r)
                  /\ IF ret = "raise" THEN Raised(p, entry)
                     ELSE GoOn(p, entry, "create")
  /\ UNCHANGED <<config, store, initStore, accepted, runs, prevResult, storeAtStart,
                 listed, firstRun, helloVars>>

\* create_table up to the existence check: table_config["name"], table_exists.
ExistsCheck(p) ==
  /\ pc[p] = "exists"
  /\ IF Desc(p).name = NoName
       THEN /\ Raised(p, [NewEntry EXCEPT !.exists = "KeyError"])
            /\ UNCHANGED faults
       ELSE \E r \in DescribeAnswers(Desc(p).name) :
              LET entry == [NewEntry EXCEPT !.exists = r]
                  ret == TableExistsReturn(r)
              IN  /\ Spend(r)
                  /\ IF ret = "raise" THEN Raised(p, entry)
                     ELSE IF ret = "True" THEN Returned(p, entry, "True")
                     ELSE GoOn(p, entry, "create")
  /\ UNCHANGED <<config, store, initStore, accepted, runs, prevResult, storeAtStart,
                 listed, firstRun, helloVars>>

\* create_table's try block up to client.create_table, and the except clauses
\* for what it raises.
CreateCall(p) ==
  /\ pc[p] = "create"
  /\ LET entry == report[p][idx[p]]
         n == Desc(p).name
     IN  IF ~Desc(p).complete
           THEN /\ Returned(p, [entry EXCEPT !.create = "KeyError"], "False")
                /\ UNCHANGED <<store, accepted, faults>>
           ELSE \E r \in CreateAnswersFor(Desc(p)) :
                  LET e2 == [entry EXCEPT !.create = r]
                      next == AfterCreate(r)
                  IN  /\ Spend(r)
                      /\ IF r = "ok"
                           THEN /\ store' = [store EXCEPT ![n] = "CREATING"]
                                /\ accepted' = [accepted EXCEPT ![n] = @ + 1]
                           ELSE UNCHANGED <<store, accepted>>
                      /\ IF next = "wait" THEN GoOn(p, e2, "wait")
                         ELSE Returned(p, e2, next)
  /\ UNCHANGED <<config, initStore, runs, prevResult, storeAtStart, listed, firstRun, helloVars>>

\* create_table's waiter.wait, and the except clause for what it raises.
WaitCall(p) ==
  /\ pc[p] = "wait"
  /\ \E r \in WaitAnswers(Desc(p).name) :
       /\ Spend(r)
       /\ Returned(p, [report[p][idx[p]] EXCEPT !.wait = r], AfterWait(r))
  /\ UNCHANGED <<config, store, initStore, accepted, runs, prevResult, storeAtStart,
                 listed, firstRun, helloVars>>

\* ------------------------------------------------------- the specification
\* ListTables: the names of the tables of every status, or a lost call.
ListAnswers ==
  {"ok"} \cup (IF faults < Budget THEN {"EndpointConnectionError"} ELSE {})

\* Mutant of ListTablesReturn: the except clause is gone, a failed call
\* raises.
ListTablesReturn_Reraise(r, present) ==
  IF r = "ok"
    THEN [raised |-> FALSE, tables |-> present]
    ELSE [raised |-> TRUE, tables |-> {}]

\* Mutant of ListTablesReturn: an empty answer is treated as an error.
ListTablesReturn_RaiseOnEmpty(r, present) ==
  IF r = "ok" /\ present # {}
    THEN [raised |-> FALSE, tables |-> present]
    ELSE [raised |-> TRUE, tables |-> {}]

\* list_tables: response.get("TableNames", []), and [] from its except clause.
ListTablesReturn(r, present) ==
  [raised |-> FALSE, tables |-> IF r = "ok" THEN present ELSE {}]

\* main --list: "return" after the listing is logged, sys.exit(1) from the
\* outer except clause if list_tables raised.
ListExit(out) == IF out.raised THEN 1 ELSE 0

NotListed == [called |-> FALSE, out |-> [raised |-> FALSE, tables |-> {}], exit |-> -1]

\* main --list: one list_tables call, its result logged, and nothing else.
List ==
  /\ \E r \in ListAnswers :
       /\ LET out == ListTablesReturn(r, Present(store))
          IN  listed' = [called |-> TRUE, out |-> out, exit |-> ListExit(out)]
       /\ Spend(r)
  /\ UNCHANGED <<config, store, initStore, accepted, pc, idx, success_count, result,
                 exit_status, report, runs, prevResult, storeAtStart, firstRun, helloVars>>

NotReplayed ==
  [replayed |-> FALSE, tables |-> <<>>, report |-> <<>>, result |-> "none", present |-> {}]

\* The experiment of running the script again on the same configuration in
\* another order against a store in the same state: after the lone
\* instance's first run, that run is kept for comparison, the store is put
\* back as it was and the "tables" list is permuted.
Replay ==
  /\ pc["m1"] = "done" /\ runs["m1"] = 1 /\ ~firstRun.replayed
  /\ pc["m2"] = "off"
  /\ config.source = "ok"
  /\ firstRun' = [replayed |-> TRUE, tables |-> Tables, report |-> report["m1"],
                  result |-> result["m1"], present |-> Present(store)]
  /\ \E q \in Permutations(1..Len(Tables)) :
       config' = [config EXCEPT !.tables = [i \in 1..Len(Tables) |-> Tables[q[i]]]]
  /\ store' = initStore
  /\ accepted' = [n \in Names |-> 0]
  /\ UNCHANGED <<initStore, faults, pc, idx, success_count, result, exit_status, report,
                 runs, prevResult, storeAtStart, listed, helloVars>>

\* Mutant of Interrupt: the interrupted run deletes the table it was working on.
Interrupt_Rollback(p) ==
  /\ pc[p] \in {"exists", "create", "wait"}
  /\ pc' = [pc EXCEPT ![p] = "killed"]
  /\ result' = [result EXCEPT ![p] = "interrupted"]
  /\ store' = IF Desc(p).name \in Names
                THEN [store EXCEPT ![Desc(p).name] = "absent"] ELSE store
  /\ UNCHANGED <<config, initStore, accepted, faults, idx, success_count,
                 exit_status, report, runs, prevResult, storeAtStart, listed, firstRun, helloVars>>

\* The process is cancelled between two store calls of a run
\* (KeyboardInterrupt is not an Exception: no except clause of the script
\* catches it, and no handler of it exists).
Interrupt(p) ==
  /\ pc[p] \in {"exists", "create", "wait"}
  /\ pc' = [pc EXCEPT ![p] = "killed"]
  /\ result' = [result EXCEPT ![p] = "interrupted"]
  /\ UNCHANGED <<config, store, initStore, accepted, faults, idx, success_count,
                 exit_status, report, runs, prevResult, storeAtStart, listed, firstRun, helloVars>>

\* ------------------------------------------------------ main.py: dates
\* datetime.date as <<year, month, day>>.
IsLeap(y) == y % 4 = 0 /\ (y % 100 # 0 \/ y % 400 = 0)

DaysInMonth(y, m) ==
  IF m = 2 THEN (IF IsLeap(y) THEN 29 ELSE 28)
  ELSE IF m \in {4, 6, 9, 11} THEN 30 ELSE 31

ValidDate(dt) == dt[2] \in 1..12 /\ dt[3] \in 1..DaysInMonth(dt[1], dt[2])

\* date.__lt__
DateLess(a, b) ==
  \/ a[1] < b[1]
  \/ a[1] = b[1] /\ a[2] < b[2]
  \/ a[1] = b[1] /\ a[2] = b[2] /\ a[3] < b[3]

\* date.toordinal: days since 0001-01-01, which is day 1.
DaysBeforeYear(y) ==
  (y - 1) * 365 + ((y - 1) \div 4) - ((y - 1) \div 100) + ((y - 1) \div 400)

DaysBeforeMonth(y, m) ==
  <<0, 31, 59, 90, 120, 151, 181, 212, 243, 273, 304, 334>>[m]
    + (IF m > 2 /\ IsLeap(y) THEN 1 ELSE 0)

Ordinal(dt) == DaysBeforeYear(dt[1]) + DaysBeforeMonth(dt[1], dt[2]) + dt[3]

\* today + timedelta(days=1)
Tomorrow(dt) ==
  IF dt[3] < DaysInMonth(dt[1], dt[2]) THEN <<dt[1], dt[2], dt[3] + 1>>
  ELSE IF dt[2] < 12 THEN <<dt[1], dt[2] + 1, 1>>
  ELSE <<dt[1] + 1, 1, 1>>

\* date.isoformat(): the ten characters YYYY-MM-DD.
Digit(n) == <<"0", "1", "2", "3", "4", "5", "6", "7", "8", "9">>[n + 1]

IsoFormat(dt) ==
  << Digit(dt[1] \div 1000), Digit((dt[1] \div 100) % 10), Digit((dt[1] \div 10) % 10),
     Digit(dt[1] % 10), "-", Digit(dt[2] \div 10), Digit(dt[2] % 10), "-",
     Digit(dt[3] \div 10), Digit(dt[3] % 10) >>

\* datetime.strptime(s, "%Y-%m-%d").date()
DigitValue(c) == CHOOSE n \in 0..9 : Digit(n) = c

StrpTime(s) ==
  << 1000 * DigitValue(s[1]) + 100 * DigitValue(s[2]) + 10 * DigitValue(s[3])
       + DigitValue(s[4]),
     10 * DigitValue(s[6]) + DigitValue(s[7]),
     10 * DigitValue(s[9]) + DigitValue(s[10]) >>

\* date.replace(year=y): ValueError when the day does not exist in year y.
Replace(dt, y) ==
  IF ValidDate(<<y, dt[2], dt[3]>>)
    THEN [raised |-> FALSE, date |-> <<y, dt[2], dt[3]>>]
    ELSE [raised |-> TRUE, date |-> dt]

\* Mutant of BirthdayPassed: "<=" in place of "<".
BirthdayPassed_OrIsToday(this_year_birthday, td) ==
  ~DateLess(td, this_year_birthday)

\* if this_year_birthday < today
BirthdayPassed(this_year_birthday, td) == DateLess(this_year_birthday, td)

ValueError == [raised |-> TRUE, value |-> 0]

\* calculate_days_until_birthday, with date.today() = td.
calculate_days_until_birthday(birth_date_str, td) ==
  LET birth_date == StrpTime(birth_date_str)
      this_year_birthday == Replace(birth_date, td[1])
  IN  IF this_year_birthday.raised THEN ValueError
      ELSE LET next_birthday ==
                 IF BirthdayPassed(this_year_birthday.date, td)
                   THEN Replace(birth_date, td[1] + 1)
                   ELSE this_year_birthday
           IN  IF next_birthday.raised THEN ValueError
               ELSE [raised |-> FALSE,
                     value |-> Ordinal(next_birthday.date) - Ordinal(td)]

\* The dates the calculation is tried on: the first and last days and the
\* middle of four months of the year, birth dates of a leap and a common
\* year, current dates of three years of which the middle one is a leap year.
Months == {1, 2, 3, 12}
DaysOfMonth == {1, 2, 15, 27, 28, 29, 30, 31}
DatesOf(years) ==
  {dt \in years \X Months \X DaysOfMonth : ValidDate(dt)}
BirthDates == DatesOf({2020, 2021})
CurrentDates == DatesOf({2023, 2024, 2025})

NotCalled == [called |-> FALSE, out |-> [raised |-> FALSE, value |-> 0]]

\* A direct call of calculate_days_until_birthday(arg).
Calculate ==
  /\ ~days.called
  /\ days' = [called |-> TRUE, out |-> calculate_days_until_birthday(arg, today)]
  /\ UNCHANGED <<today, records, writtenOn, response, elapsed, arg, migratorVars>>

\* ---------------------------------------------------- main.py: the service
\* Path segments after /hello/: two that match ^[A-Za-z]+$ and one that does not.
Alphabetic == {"alice", "healthcheck"}
Usernames == Alphabetic \cup {"bob1"}

NoItem == <<>>
NoDate == <<0, 0, 0>>

\* The service starts on one of these days.
StartDates == {<<2023, 2, 27>>, <<2024, 2, 27>>, <<2023, 12, 30>>}

\* dateOfBirth values of the PUT bodies.
PutDates ==
  {<<2020, 2, 29>>, <<2022, 12, 31>>, <<2023, 2, 28>>, <<2023, 3, 1>>,
   <<2024, 1, 1>>, <<2024, 2, 28>>, <<2024, 2, 29>>}

\* table.put_item and table.get_item: done, refused (ClientError), or lost.
ItemAnswers == {"ok", "ClientError", "EndpointConnectionError"}

NoResponse ==
  [op |-> "none", user |-> "none", at |-> NoDate, hasBody |-> FALSE, body |-> NoDate,
   status |-> 0, handler |-> "none", loads |-> 0, wrote |-> FALSE, kind |-> "none",
   days |-> 0, unit |-> "none", io |-> "none"]

\* The app's routes: PUT and GET /hello/{username}, and no other.
Handler(method, segment) ==
  IF method = "PUT" THEN "put_hello" ELSE "get_hello"

\* The answer to a request: status and message, by which handler, after how
\* many table.load() calls, and whether an item was put on the way.
Answer(method, u, hasBody, d, st, k, n) ==
  [op |-> method, user |-> u, at |-> today, hasBody |-> hasBody, body |-> d,
   status |-> st, handler |-> Handler(method, u), loads |-> 0,
   wrote |-> (method = "PUT" /\ st = 204), kind |-> k,
   days |-> n, unit |-> IF k # "days" THEN "none" ELSE IF n = 1 THEN "day" ELSE "days",
   io |-> "none"]

\* The answer of a handler that called the table and got r from it.
After(r, answer) == [answer EXCEPT !.io = r]

\* Mutant of GetBirthdayReturn: a failed read is answered from a cache of the
\* item.
GetBirthdayReturn_Cached(r, item) == item

\* Mutant of date_must_be_before_today: ">" in place of ">=".
date_must_be_before_today_OrToday(v, td) == ~DateLess(td, v)

\* HelloRequest.date_must_be_before_today: TRUE when v passes.
date_must_be_before_today(v, td) == DateLess(v, td)

\* store_birthday: the status put_hello ends with.
StoreBirthdayStatus(r) ==
  IF r = "ok" THEN 204 ELSE IF r = "ClientError" THEN 500 ELSE 503

\* get_birthday: the item's dateOfBirth, None after any exception.
GetBirthdayReturn(r, item) == IF r = "ok" THEN item ELSE NoItem

\* PUT /hello/{u} with no body or with {"dateOfBirth": d}.
PutHello(u, hasBody, d) ==
  /\ IF u \notin Alphabetic \/ ~hasBody \/ ~date_must_be_before_today(d, today)
       THEN /\ response' = Answer("PUT", u, hasBody, d, 422, "invalid", 0)
            /\ UNCHANGED <<records, writtenOn>>
       ELSE \E r \in ItemAnswers :
              /\ response' = After(r, Answer("PUT", u, hasBody, d, StoreBirthdayStatus(r),
                                             IF r = "ok" THEN "none" ELSE "error", 0))
              /\ IF r = "ok"
                   THEN /\ records' = [records EXCEPT ![u] = IsoFormat(d)]
                        /\ writtenOn' = [writtenOn EXCEPT ![u] = today]
                   ELSE UNCHANGED <<records, writtenOn>>
  /\ UNCHANGED <<today, elapsed, arg, days, migratorVars>>

\* GET /hello/{u}
GetHello(u) ==
  /\ IF u \notin Alphabetic
       THEN response' = Answer("GET", u, FALSE, NoDate, 422, "invalid", 0)
       ELSE \E r \in ItemAnswers :
              LET date_of_birth == GetBirthdayReturn(r, records[u])
                  days_until_birthday ==
                    calculate_days_until_birthday(date_of_birth, today)
              IN  response' = After(r,
                    IF date_of_birth = NoItem
                      THEN Answer("GET", u, FALSE, NoDate, 200, "user not found", 0)
                    ELSE IF days_until_birthday.raised
                      THEN Answer("GET", u, FALSE, NoDate, 500, "error", 0)
                    ELSE IF days_until_birthday.value = 0
                      THEN Answer("GET", u, FALSE, NoDate, 200, "birthday", 0)
                    ELSE Answer("GET", u, FALSE, NoDate, 200, "days",
                                days_until_birthday.value))
  /\ UNCHANGED <<today, records, writtenOn, elapsed, arg, days, migratorVars>>

\* Midnight passes: date.today() moves on.
NextDay ==
  /\ elapsed < MaxDays
  /\ elapsed' = elapsed + 1
  /\ today' = Tomorrow(today)
  /\ UNCHANGED <<records, writtenOn, response, arg, days, migratorVars>>

\* main.py at rest: no request is ever made.
HelloIdle ==
  /\ today = <<2024, 3, 10>>
  /\ records = [u \in Alphabetic |-> NoItem]
  /\ writtenOn = [u \in Alphabetic |-> NoDate]
  /\ response = NoResponse
  /\ elapsed = 0
  /\ arg = IsoFormat(<<2020, 1, 1>>)
  /\ days = NotCalled

\* migrations.py at rest: the script is never run.
MigratorIdle ==
  /\ config = [source |-> "ok", tables |-> <<>>]
  /\ store = [n \in Names |-> "absent"]
  /\ initStore = store
  /\ accepted = [n \in Names |-> 0]
  /\ faults = 0
  /\ pc = [p \in Procs |-> "off"]
  /\ idx = [p \in Procs |-> 0]
  /\ success_count = [p \in Procs |-> 0]
  /\ result = [p \in Procs |-> "none"]
  /\ exit_status = [p \in Procs |-> -1]
  /\ report = [p \in Procs |-> <<>>]
  /\ runs = [p \in Procs |-> 0]
  /\ prevResult = [p \in Procs |-> "none"]
  /\ storeAtStart = [p \in Procs |-> {}]
  /\ listed = NotListed
  /\ firstRun = NotReplayed

\* One instance or two, started against any store and a configuration of cfgs.
MigratorInit(cfgs) ==
  /\ config \in cfgs
  /\ store \in [Names -> StoreStatus]
  /\ initStore = store
  /\ accepted = [n \in Names |-> 0]
  /\ pc \in {f \in [Procs -> {"idle", "off"}] : f["m1"] = "idle"}
  /\ faults = 0
  /\ idx = [p \in Procs |-> 0]
  /\ success_count = [p \in Procs |-> 0]
  /\ result = [p \in Procs |-> "none"]
  /\ exit_status = [p \in Procs |-> -1]
  /\ report = [p \in Procs |-> <<>>]
  /\ runs = [p \in Procs |-> 0]
  /\ prevResult = [p \in Procs |-> "none"]
  /\ storeAtStart = [p \in Procs |-> {}]
  /\ listed = NotListed
  /\ firstRun = NotReplayed

Init == MigratorInit(Configs) /\ HelloIdle

Next ==
  \/ \E p \in Procs : Start(p)
  \/ \E p \in Procs : ExistsCheck(p)
  \/ \E p \in Procs : CreateCall(p)
  \/ \E p \in Procs : WaitCall(p)
  \/ \E n \in Names : Activate(n)

Spec == Init /\ [][Next]_vars

\* One instance of the script, with the fault budget.
InitSolo == Init /\ pc["m2"] = "off"

\* Runs of the script and --list invocations, in any interleaving.
NextList ==
  \/ Next
  \/ List

SpecList == InitSolo /\ [][NextList]_vars

\* A run, and a second run of the permuted list from the same store.
NextOrder ==
  \/ Next
  \/ Replay

SpecOrder == InitSolo /\ [][NextOrder]_vars

\* Runs of the script that may be cut short at any point, and run again.
NextCancel ==
  \/ Next
  \/ \E p \in Procs : Interrupt(p)

SpecCancel == InitSolo /\ [][NextCancel]_vars

\* calculate_days_until_birthday called on every pair of a birth date and a
\* current date.
InitCalc ==
  /\ MigratorIdle
  /\ today \in CurrentDates
  /\ arg \in {IsoFormat(b) : b \in BirthDates}
  /\ days = NotCalled
  /\ records = [u \in Alphabetic |-> NoItem]
  /\ writtenOn = [u \in Alphabetic |-> NoDate]
  /\ response = NoResponse
  /\ elapsed = 0

NextCalc == Calculate

SpecCalc == InitCalc /\ [][NextCalc]_vars

\* The service, started with an empty table, over a few days.
InitHello ==
  /\ MigratorIdle
  /\ today \in StartDates
  /\ records = [u \in Alphabetic |-> NoItem]
  /\ writtenOn = [u \in Alphabetic |-> NoDate]
  /\ response = NoResponse
  /\ elapsed = 0
  /\ arg = IsoFormat(<<2020, 1, 1>>)
  /\ days = NotCalled

NextHello ==
  \/ \E u \in Usernames : \E d \in PutDates : PutHello(u, TRUE, d)
  \/ \E u \in Usernames : PutHello(u, FALSE, NoDate)
  \/ \E u \in Usernames : GetHello(u)
  \/ NextDay

SpecHello == InitHello /\ [][NextHello]_vars

\* The script run on configurations that break the key_schema invariant.
InitUndeclared == MigratorInit(UndeclaredConfigs) /\ HelloIdle
SpecUndeclared == InitUndeclared /\ [][Next]_vars

\* ------------------------------------------------------------ vocabulary
Loaded == config.source = "ok"
N == Len(Tables)
Done(p) == pc[p] = "done"
Entries(p) == 1..Len(report[p])
Malformed(d) == d.name = NoName \/ ~d.complete
WellFormedConfig == \A i \in 1..N : ~Malformed(Tables[i])
Concurrent == pc["m1"] # "off" /\ pc["m2"] # "off"

\* The store refused or lost a call of this create_table.
StoreErrors == {"AccessDeniedException", "EndpointConnectionError"}
ExistsFailed(e) == e.exists \in StoreErrors
CreateFailed(e) == e.create \in StoreErrors
WaitFailed(e) == e.wait = "WaiterError"
\* The call met a KeyError of the descriptor.
KeyFailed(e) == e.exists = "KeyError" \/ e.create = "KeyError"
Succeeded(e) == e.ret = "True"
Failed(e) == e.ret \in {"False", "raised"}

\* ------------------------------------------------------------------- C1
\* The run's only failure is the create call of one descriptor.
OnlyOneCreateFails(p) ==
  /\ Cardinality({i \in Entries(p) : CreateFailed(report[p][i])}) = 1
  /\ \A i \in Entries(p) :
       LET e == report[p][i]
       IN  ~ExistsFailed(e) /\ ~WaitFailed(e) /\ ~KeyFailed(e)

\* C1: when a run has ended in which the create call of exactly one
\* descriptor failed with a store error other than ResourceInUseException and
\* nothing else failed, create_table was called for every descriptor, every
\* other descriptor succeeded, success_count is N-1 and run_migrations
\* returned False.
C1_IsolationWithContinuation ==
  \A p \in Procs :
    (Done(p) /\ Loaded /\ OnlyOneCreateFails(p)) =>
      /\ Len(report[p]) = N
      /\ \A i \in Entries(p) :
           IF CreateFailed(report[p][i]) THEN report[p][i].ret = "False"
           ELSE Succeeded(report[p][i])
      /\ success_count[p] = N - 1
      /\ result[p] = "False"
      /\ exit_status[p] = 1

\* The first of two descriptors failed on create, the second was created.
C1_Witness ==
  \E p \in Procs :
    /\ Done(p) /\ Loaded /\ OnlyOneCreateFails(p) /\ N = 2
    /\ CreateFailed(report[p][1])
    /\ report[p][2].create = "ok" /\ Succeeded(report[p][2])

\* ------------------------------------------------------------------- C2
NoStoreFailure(p) ==
  \A i \in Entries(p) :
    ~ExistsFailed(report[p][i]) /\ ~CreateFailed(report[p][i]) /\ ~WaitFailed(report[p][i])

\* C2 (the claim as stated, in the half that says the run goes on): when a
\* run has ended whose configuration holds exactly one malformed descriptor
\* and whose store calls all succeeded, create_table was called for that
\* descriptor and every descriptor after it was processed by create_table and
\* got an outcome of its own.
C2_BadDescriptorDoesNotBlock ==
  \A p \in Procs : \A m \in 1..N :
    (/\ Done(p) /\ Loaded /\ NoStoreFailure(p)
     /\ Malformed(Tables[m])
     /\ \A k \in 1..N : k # m => ~Malformed(Tables[k])) =>
      /\ m \in Entries(p)
      /\ \A j \in (m + 1)..N :
           j \in Entries(p) /\ report[p][j].ret \in {"True", "False"}

\* ------------------------------------------------------------------- C3
\* C3 (the claim as stated): when a run over well-formed descriptors has ended
\* in which an existence check failed with an error other than
\* ResourceNotFoundException, every descriptor was processed and has an
\* outcome of its own.
C3_ExistsErrorDoesNotAbort ==
  \A p \in Procs :
    (/\ Done(p) /\ Loaded /\ WellFormedConfig
     /\ \E i \in Entries(p) : ExistsFailed(report[p][i])) =>
      /\ Len(report[p]) = N
      /\ \A j \in Entries(p) : report[p][j].ret \in {"True", "False"}

\* ------------------------------------------------------------------- C4
\* C4 (the claim as stated): a create_table call that has ended and in which
\* the existence check, the create or the wait failed ended as failed.
C4_FailuresNeverMasked ==
  \A p \in Procs : \A i \in Entries(p) :
    LET e == report[p][i]
    IN  (e.ret # "pending" /\ (ExistsFailed(e) \/ CreateFailed(e) \/ WaitFailed(e)))
          => Failed(e)

\* ------------------------------------------------------------------- C5
\* C5: a create_table call whose create was answered ResourceInUseException
\* returned True and is counted in success_count; a run in which every
\* descriptor so ended, or succeeded otherwise, exits with status 0.
C5_RaceTolerance ==
  \A p \in Procs :
    /\ \A i \in Entries(p) :
         report[p][i].create = "ResourceInUseException" => Succeeded(report[p][i])
    /\ success_count[p] = Cardinality({i \in Entries(p) : Succeeded(report[p][i])})
    /\ (/\ Done(p) /\ Loaded /\ Len(report[p]) = N
        /\ \A i \in Entries(p) :
             report[p][i].create # "ResourceInUseException" => Succeeded(report[p][i]))
         => exit_status[p] = 0

\* Two instances raced: one's create was accepted, the other's was answered
\* ResourceInUseException, and that other run ended with status 0.
C5_Witness ==
  \E p \in Procs : \E q \in Procs \ {p} : \E i \in Entries(p) : \E j \in Entries(q) :
    /\ Tables[i].name = Tables[j].name
    /\ report[p][i].create = "ResourceInUseException"
    /\ report[q][j].create = "ok"
    /\ Done(p) /\ exit_status[p] = 0

\* ------------------------------------------------------------------- C6
\* C6 (the claim as stated, for a store that failed no call): a create_table
\* call whose create was answered ResourceInUseException and that returned
\* True has waited for readiness with success before.
C6_RaceLostStillWaits ==
  \A p \in Procs : \A i \in Entries(p) :
    (/\ faults = 0
     /\ report[p][i].create = "ResourceInUseException"
     /\ Succeeded(report[p][i]))
      => report[p][i].wait = "ok"

\* ------------------------------------------------------------------- C7
\* C7 (the claim as stated, for well-formed descriptors and a store that
\* failed no call): when run_migrations has returned True, every table the
\* configuration names is present and ACTIVE.  (The store never leaves
\* ACTIVE, so a table not ACTIVE now was not ACTIVE at the return.)
C7_SuccessMeansAllReady ==
  \A p \in Procs :
    (Done(p) /\ Loaded /\ WellFormedConfig /\ faults = 0 /\ result[p] = "True") =>
      \A i \in 1..N : store[Tables[i].name] = "ACTIVE"

\* ------------------------------------------------------------------- C8
ConfigNames == {Tables[i].name : i \in 1..N}
BothDone == \A p \in Procs : Done(p)

\* C8 (the claim as stated): two instances, one well-formed configuration, no
\* fault: once both have ended, both returned True, neither has a failed
\* entity, and the store accepted exactly one create per configured name.
C8_ExactlyOneCreateAccepted ==
  (Concurrent /\ BothDone /\ Loaded /\ WellFormedConfig /\ faults = 0) =>
    /\ \A p \in Procs :
         /\ result[p] = "True"
         /\ \A i \in Entries(p) : Succeeded(report[p][i])
    /\ \A n \in ConfigNames : accepted[n] = 1

\* C8 (amended): two instances, one well-formed configuration, no fault: an
\* instance that has ended returned True with status 0 and every descriptor
\* succeeded; the store never accepts a second create for a name; and once
\* both have ended it accepted exactly one create for every configured name
\* that was absent at the start and none for a name that was present.
C8_ConcurrentProvisionersSafe ==
  (Concurrent /\ Loaded /\ WellFormedConfig /\ faults = 0) =>
    /\ \A p \in Procs :
         Done(p) =>
           /\ result[p] = "True" /\ exit_status[p] = 0
           /\ Len(report[p]) = N
           /\ \A i \in Entries(p) : Succeeded(report[p][i])
    /\ \A n \in Names : accepted[n] <= 1
    /\ BothDone =>
         \A n \in ConfigNames :
           accepted[n] = IF initStore[n] = "absent" THEN 1 ELSE 0

\* Both instances found a table absent and both sent a create: the store
\* accepted one and answered the other ResourceInUseException; both ended.
C8_Witness ==
  /\ Concurrent /\ BothDone /\ Loaded /\ WellFormedConfig /\ faults = 0
  /\ \E i \in Entries("m1") : \E j \in Entries("m2") :
       /\ Tables[i].name = Tables[j].name
       /\ {report["m1"][i].create, report["m2"][j].create}
            = {"ok", "ResourceInUseException"}
       /\ accepted[Tables[i].name] = 1

\* ------------------------------------------------------------------- C9
\* C9: the second run of an instance, after a first run that returned True
\* over the same configuration against a store that started empty, and with
\* no store call failing in it: every descriptor ends as already existing on
\* the existence check alone, no create and no wait is sent, the set of
\* tables in the store is the one the run started with, and it returns True.
C9_Idempotence ==
  \A p \in Procs :
    (/\ runs[p] = 2 /\ Done(p) /\ Loaded
     /\ \A n \in Names : initStore[n] = "absent"
     /\ prevResult[p] = "True"
     /\ NoStoreFailure(p)) =>
      /\ Len(report[p]) = N
      /\ \A i \in Entries(p) :
           /\ report[p][i].exists = "ok"
           /\ report[p][i].create = "none"
           /\ report[p][i].wait = "none"
           /\ Succeeded(report[p][i])
      /\ Present(store) = storeAtStart[p]
      /\ result[p] = "True" /\ exit_status[p] = 0

\* A second run over two different tables, both created by the first run.
C9_Witness ==
  \E p \in Procs :
    /\ runs[p] = 2 /\ Done(p) /\ Loaded /\ N = 2
    /\ \A n \in Names : initStore[n] = "absent"
    /\ prevResult[p] = "True" /\ NoStoreFailure(p)
    /\ Tables[1].name # Tables[2].name
    /\ accepted = [n \in Names |-> 1]
    /\ result[p] = "True"

\* ------------------------------------------------------------------ C10
\* C10: when a run over a loaded configuration (the empty one included) has
\* ended, run_migrations returned True exactly if create_table was called for
\* every descriptor and returned True for each, and False otherwise; the exit
\* status is 0 for True and 1 for False.
C10_BinaryExitStatus ==
  \A p \in Procs :
    (Done(p) /\ Loaded) =>
      /\ result[p] \in {"True", "False"}
      /\ result[p] = "True" <=>
           (Len(report[p]) = N /\ \A i \in Entries(p) : Succeeded(report[p][i]))
      /\ exit_status[p] = IF result[p] = "True" THEN 0 ELSE 1

\* A run in which one descriptor failed and another succeeded exits with 1.
C10_Witness ==
  \E p \in Procs :
    /\ Done(p) /\ Loaded /\ N = 2
    /\ report[p][1].ret = "False" /\ Succeeded(report[p][2])
    /\ result[p] = "False" /\ exit_status[p] = 1

\* ------------------------------------------------------------------ C11
\* C11 (the claim as stated): with a configuration in which a key_schema
\* names an attribute its descriptor does not declare, no instance sends a
\* store call for any descriptor, the store accepts no create, and a run
\* that has ended returned False.
C11_UndeclaredKeyRejectedByLoader ==
  (Loaded /\ \E i \in 1..N : ~Tables[i].declared) =>
    /\ \A p \in Procs : \A i \in Entries(p) :
         /\ report[p][i].exists \in {"none", "KeyError"}
         /\ report[p][i].create = "none"
    /\ \A n \in Names : accepted[n] = 0
    /\ \A p \in Procs : Done(p) => result[p] = "False"

\* ------------------------------------------------------------------ C12
\* The store is as it was at the start, but for tables that were being
\* created and became ACTIVE on the store's side.
StoreUntouched ==
  \A n \in Names :
    store[n] = initStore[n] \/ (initStore[n] = "CREATING" /\ store[n] = "ACTIVE")

\* C12: when the configuration file is missing or is not JSON, no instance
\* ever sends an existence check, a create or a wait, the store accepts no
\* create and keeps its tables, and every run that has ended returned False
\* with exit status 1.
C12_ConfigErrorIsFatalBeforeStore ==
  ~Loaded =>
    /\ \A p \in Procs :
         /\ report[p] = <<>>
         /\ pc[p] \notin {"exists", "create", "wait"}
         /\ Done(p) => (result[p] = "False" /\ exit_status[p] = 1)
    /\ \A n \in Names : accepted[n] = 0
    /\ StoreUntouched

\* A run on a file that is not JSON has ended.
C12_Witness ==
  /\ config.source = "JSONDecodeError"
  /\ Done("m1")
  /\ exit_status["m1"] = 1

\* ------------------------------------------------------------------ C13
\* C13: a create_table call whose create was accepted and whose waiter then
\* failed returned False, its table is still in the store (nothing deleted
\* it), and if a descriptor follows, the loop has moved on to it.
C13_TimeoutFailsEntityAndContinues ==
  \A p \in Procs : \A i \in Entries(p) :
    LET e == report[p][i]
    IN  (e.create = "ok" /\ WaitFailed(e)) =>
          /\ e.ret = "False"
          /\ store[Tables[i].name] # "absent"
          /\ i < N => idx[p] > i

\* The waiter failed for the first descriptor and the second one was
\* processed to its end.
C13_Witness ==
  \E p \in Procs :
    /\ Len(report[p]) = 2
    /\ report[p][1].create = "ok"
    /\ WaitFailed(report[p][1])
    /\ report[p][2].ret \in {"True", "False"}

\* ------------------------------------------------------------------ C14
\* C14 (the claim as stated, in its safety half): when a run over a loaded
\* configuration has ended, every descriptor of the configuration has an
\* outcome, True (existed or created) or False (failed).
C14_EveryDescriptorHasTerminalOutcome ==
  \A p \in Procs :
    (Loaded /\ Done(p)) =>
      \A i \in 1..N : i \in Entries(p) /\ report[p][i].ret \in {"True", "False"}

\* ------------------------------------------------------------------ C15
\* C15: a listing changes neither the store nor the count of accepted
\* creates, it never raises, the names it returns are names of tables in the
\* store, and from a store without tables it returns the empty list.
C15_ListIsReadOnlyAndTotal ==
  [][listed' # listed =>
       /\ store' = store
       /\ accepted' = accepted
       /\ ~listed'.out.raised
       /\ listed'.out.tables \subseteq Present(store)
       /\ Present(store) = {} => listed'.out.tables = {}]_vars

\* A listing of a store without tables has returned the empty list.
C15_Witness ==
  /\ listed.called /\ ~listed.out.raised /\ listed.out.tables = {}
  /\ Present(store) = {} /\ faults = 0

\* ------------------------------------------------------------------ C16
\* No step of any operation removes a table from the store.
Additive == \A n \in Names : store[n] # "absent" => store'[n] # "absent"

\* A run that followed an interrupted one, over well-formed descriptors and
\* with no store failure, returned True.
RerunSucceeds ==
  \A p \in Procs :
    (/\ Done(p) /\ prevResult[p] = "interrupted"
     /\ Loaded /\ WellFormedConfig /\ NoStoreFailure(p)) => result[p] = "True"

\* C16: across runs, failed runs and interruptions the set of tables present
\* in the store only grows, and a full run after an interrupted one, with no
\* store failure, ends in success.
C16_ProvisioningIsAdditive == [][Additive /\ RerunSucceeds']_vars

\* A run interrupted after its create was accepted was followed by a run
\* that ended in success, and the table is still there.
C16_Witness ==
  \E p \in Procs :
    /\ Done(p) /\ prevResult[p] = "interrupted" /\ result[p] = "True"
    /\ N > 0 /\ WellFormedConfig
    /\ \E i \in 1..N : accepted[Tables[i].name] = 1 /\ store[Tables[i].name] # "absent"

\* ------------------------------------------------------------------ C17
LeapDay(dt) == dt[2] = 2 /\ dt[3] = 29

\* The number of midnights from one date to a later one, counted month by
\* month along the calendar.
RECURSIVE DaysFromTo(_, _)
DaysFromTo(from, to) ==
  IF from[1] = to[1] /\ from[2] = to[2] THEN to[3] - from[3]
  ELSE LET last == <<from[1], from[2], DaysInMonth(from[1], from[2])>>
       IN  (last[3] - from[3] + 1) + DaysFromTo(Tomorrow(last), to)

\* The anniversary of b in today's year, or next year's once that has passed.
NextAnniversary(b, td) ==
  IF DateLess(<<td[1], b[2], b[3]>>, td)
    THEN <<td[1] + 1, b[2], b[3]>>
    ELSE <<td[1], b[2], b[3]>>

\* C17: called with the ISO form of a birth date b that is not a February 29,
\* calculate_days_until_birthday raises nothing and returns the number of
\* days from today to the next anniversary of b; that number is between 0
\* and 366, and is 0 exactly when today has b's month and day.
C17_NextAnniversaryArithmetic ==
  days.called =>
    \A b \in BirthDates :
      (IsoFormat(b) = arg /\ ~LeapDay(b)) =>
        /\ ~days.out.raised
        /\ days.out.value = DaysFromTo(today, NextAnniversary(b, today))
        /\ days.out.value \in 0..366
        /\ days.out.value = 0 <=> (today[2] = b[2] /\ today[3] = b[3])

\* The day after the anniversary, in the year before a leap year: 365 days.
C17_Witness ==
  /\ days.called /\ ~days.out.raised
  /\ arg = IsoFormat(<<2021, 3, 1>>)
  /\ today = <<2023, 3, 2>>
  /\ days.out.value = 365

\* ------------------------------------------------------------------ C18
\* C18 (the claim as stated): called with a birth date of February 29,
\* calculate_days_until_birthday raises nothing and returns a non-negative
\* number, whatever the current date.
C18_LeapDayFallback ==
  (days.called /\ arg = IsoFormat(<<2020, 2, 29>>)) =>
    (~days.out.raised /\ days.out.value >= 0)

\* ------------------------------------------------------------------ C19
\* Request r was a PUT whose dateOfBirth was that day or a later one.
PutNotBeforeToday(r) ==
  r.op = "PUT" /\ r.hasBody /\ ~DateLess(r.body, r.at)

\* Every item of the table holds a date before the day it was put.
StoredBeforeWrite ==
  \A u \in Alphabetic :
    records[u] # NoItem =>
      \E d \in PutDates : IsoFormat(d) = records[u] /\ DateLess(d, writtenOn[u])

\* C19: a PUT whose dateOfBirth is the day of the request or later is
\* answered 422 and leaves the table as it was, and every item of the table
\* holds a dateOfBirth strictly before the day it was written.
C19_StoredDateBeforeWrite ==
  /\ PutNotBeforeToday(response) => (response.status = 422 /\ ~response.wrote)
  /\ StoredBeforeWrite

\* A PUT with today's date was refused while the table holds an item.
C19_Witness ==
  /\ response.op = "PUT" /\ response.hasBody /\ response.user \in Alphabetic
  /\ response.body = today /\ response.at = today
  /\ response.status = 422
  /\ \E u \in Alphabetic : records[u] # NoItem

\* ------------------------------------------------------------------ C20
\* C20 (the claim as stated): GET /hello/healthcheck is answered by a health
\* report made after exactly one table.load(), with status 200 (healthy) or
\* 503 (unhealthy), and not by the lookup of a username.
C20_HealthcheckIsHealthReport ==
  (response.op = "GET" /\ response.user = "healthcheck") =>
    /\ response.handler # "get_hello"
    /\ response.loads = 1
    /\ response.status \in {200, 503}
    /\ response.kind \in {"healthy", "unhealthy"}

\* ------------------------------------------------------------------ C21
\* The last request was a GET for a valid username whose read succeeded.
GetAnswered == response.op = "GET" /\ response.user \in Alphabetic /\ response.io = "ok"

\* C21 (the claim as stated): a GET whose read succeeded wrote nothing and
\* was answered 200: with 'user not found' when the table holds no item for
\* the username, and for an item holding birth date b with 'Happy birthday!'
\* when the next anniversary of b is that day and with 'Your birthday is in
\* N day(s)' otherwise, N the days to it and the unit 'day' only for N = 1.
C21_GetMessages ==
  GetAnswered =>
    /\ ~response.wrote
    /\ response.status = 200
    /\ records[response.user] = NoItem => response.kind = "user not found"
    /\ \A b \in PutDates :
         IsoFormat(b) = records[response.user] =>
           LET n == DaysFromTo(response.at, NextAnniversary(b, response.at))
           IN  /\ response.kind = (IF n = 0 THEN "birthday" ELSE "days")
               /\ n # 0 => /\ response.days = n
                            /\ response.unit = (IF n = 1 THEN "day" ELSE "days")

\* ------------------------------------------------------------------ C22
\* A create request of this create_table call reached the store.
CreateSent(e) == e.create \notin {"none", "KeyError"}

\* The waiter of this create_table call was started.
WaitStarted(e) == e.wait # "none"

\* In this step instance p's existence check found the table.
FoundExisting(p) ==
  /\ pc[p] = "exists"
  /\ report'[p] # report[p]
  /\ report'[p][idx[p]].exists = "ok"

\* A call whose existence check found the table sent no create, started no
\* waiter and returned True; a call that sent a create had table_exists
\* return False before.
ShortCircuit ==
  \A p \in Procs : \A i \in Entries(p) :
    LET e == report[p][i]
    IN  /\ e.exists = "ok" => (~CreateSent(e) /\ ~WaitStarted(e) /\ e.ret = "True")
        /\ CreateSent(e) =>
             e.exists \in {"ResourceNotFoundException", "AccessDeniedException"}

\* C22: an existence check that finds the table leaves the store and its
\* count of accepted creates as they were, the call sends no create, starts
\* no waiter and returns True; and a create is sent only by a call whose
\* existence check returned False.
C22_ExistenceShortCircuit ==
  [][/\ \A p \in Procs : FoundExisting(p) => (store' = store /\ accepted' = accepted)
     /\ ShortCircuit']_vars

\* One run found its first table and created its second.
C22_Witness ==
  \E p \in Procs :
    /\ Done(p) /\ Len(report[p]) = 2
    /\ report[p][1].exists = "ok" /\ report[p][1].ret = "True"
    /\ report[p][2].exists = "ResourceNotFoundException" /\ report[p][2].create = "ok"

\* ------------------------------------------------------------------ C23
\* In this step instance p sent the create request of its current descriptor.
SendsCreate(p) == pc[p] = "create" /\ report'[p] # report[p]

\* A call whose create request was not accepted has started no waiter and is
\* not about to.
NoWaitAfterFailedCreate ==
  \A p \in Procs : \A i \in Entries(p) :
    LET e == report[p][i]
    IN  (CreateSent(e) /\ e.create # "ok") =>
          /\ ~WaitStarted(e)
          /\ ~(pc[p] = "wait" /\ idx[p] = i)

\* C23: once an instance has sent the create request of a descriptor it
\* does not send another for it, whatever the answer: it goes to the waiter,
\* to the next descriptor, or ends the run; and after a create that was not
\* accepted no waiter is started.
C23_NoAutomaticRetry ==
  [][/\ \A p \in Procs :
          SendsCreate(p) =>
            /\ pc'[p] \in {"wait", "exists", "done"}
            /\ pc'[p] = "exists" => idx'[p] = idx[p] + 1
            /\ pc'[p] \in {"wait", "done"} => idx'[p] = idx[p]
     /\ NoWaitAfterFailedCreate']_vars

\* A run whose two creates were both refused or lost has ended, with no
\* waiter started.
C23_Witness ==
  \E p \in Procs :
    /\ Done(p) /\ Len(report[p]) = 2
    /\ report[p][1].create = "AccessDeniedException"
    /\ report[p][2].create = "EndpointConnectionError"
    /\ \A i \in 1..2 : report[p][i].wait = "none" /\ report[p][i].ret = "False"

\* ------------------------------------------------------------------ C24
\* What a run that processed tables and left report rep returned for the
\* descriptors of name n.
OutcomesOf(rep, tables, n) ==
  {rep[i].ret : i \in {j \in 1..Len(rep) : tables[j].name = n}}

DistinctNames == \A i, j \in 1..N : Tables[i].name = Tables[j].name => i = j

\* C24 (the claim as stated): when the same configuration, of descriptors
\* with distinct names, has been run in two orders from the same store with
\* no store call failing, every name has the same outcome in both runs, both
\* runs returned the same result, and both left the same tables in the store.
C24_OrderInsensitive ==
  (/\ firstRun.replayed /\ Done("m1") /\ runs["m1"] = 2
   /\ DistinctNames /\ faults = 0) =>
    /\ \A n \in Names \cup {NoName} :
         OutcomesOf(report["m1"], Tables, n)
           = OutcomesOf(firstRun.report, firstRun.tables, n)
    /\ result["m1"] = firstRun.result
    /\ Present(store) = firstRun.present

\* ------------------------------------------------------------------ C25
\* The table call of the last request failed.
CallFailed(r) == r.io \in {"ClientError", "EndpointConnectionError"}

\* C25: a GET whose get_item failed is answered 200 'user not found', also
\* when the table holds an item for the username; a PUT whose put_item
\* failed is answered 500 (ClientError) or 503 (any other exception), and
\* nothing was written.
C25_FailedReadLooksAbsent ==
  /\ (response.op = "GET" /\ CallFailed(response)) =>
       (response.status = 200 /\ response.kind = "user not found")
  /\ (response.op = "PUT" /\ CallFailed(response)) =>
       /\ response.status = (IF response.io = "ClientError" THEN 500 ELSE 503)
       /\ ~response.wrote

\* A GET for a username with an item in the table was answered 'user not
\* found' because the read failed.
C25_Witness ==
  /\ response.op = "GET" /\ CallFailed(response)
  /\ records[response.user] # NoItem
  /\ response.status = 200 /\ response.kind = "user not found"

\* ------------------------------------------------------------------ C26
\* This step is a --list invocation whose list call failed.
FailedListing == faults' = faults + 1 /\ report' = report /\ pc' = pc

\* C26: a --list invocation whose list call failed has list_tables return
\* the empty list without raising, and ends with exit status 0, whatever
\* tables the store holds.
C26_FailedListingLooksEmpty ==
  [][FailedListing =>
       /\ listed'.called
       /\ ~listed'.out.raised
       /\ listed'.out.tables = {}
       /\ listed'.exit = 0]_vars

\* A store that held both tables from the start was listed as empty.
C26_Witness ==
  /\ \A n \in Names : initStore[n] = "ACTIVE"
  /\ listed.called /\ listed.out.tables = {} /\ listed.exit = 0

====
